---- MODULE Spec2Model ----
(***************************************************************************)
(* The SNS API of src/python/main.py: posts, comments and likes kept in a  *)
(* SQLite database, every request handler opening its own connection.      *)
(*                                                                         *)
(* Storage semantics (aiosqlite over sqlite3, default isolation level):    *)
(*   - a SELECT runs in autocommit mode and reads the committed database;  *)
(*   - the first INSERT/UPDATE/DELETE of a connection opens a transaction  *)
(*     and takes the database write lock; a second writer waits for it     *)
(*     (transactions are short: the busy timeout is taken not to expire);  *)
(*   - the writes of an open transaction live in the writer's working copy *)
(*     and reach the committed database at commit, all at once;            *)
(*   - closing a connection with an open transaction rolls it back.        *)
(* Handlers run as coroutines: they interleave at every await, that is at  *)
(* every storage statement.                                                *)
(***************************************************************************)
EXTENDS Integers, FiniteSets, Sequences, TLC

\* ------------------------------------------------------------------ bounds
\* number of requests of one run; they may all be in flight at once
NumReqs == 2
\* number of post ids / comment ids uuid4 hands out, stored rows included
MaxPosts == 3
MaxComments == 3
\* last value of the clock read by now_iso
MaxClock == 1

Reqs == 1..NumReqs
PostIds == 1..MaxPosts
CommentIds == 1..MaxComments
Users == {"a", "b"}

\* ------------------------------------------------------------ status codes
HTTP_200 == 200
HTTP_201 == 201
HTTP_204 == 204
HTTP_400 == 400
HTTP_404 == 404
HTTP_500 == 500

\* Python's None: an absent body field, an empty fetchone, an unset local
None == "None"
\* no connection holds the write lock
NoLock == {}

\* request bodies: username and content present and non-empty, empty, or absent
Bodies ==
    { [username |-> "a", content |-> "x"],
      [username |-> "b", content |-> "y"],
      [username |-> "", content |-> "x"],
      [username |-> "a", content |-> ""],
      [username |-> None, content |-> "x"],
      [username |-> "a", content |-> None] }

\* bodies of the like endpoints: only username is read
LikeBodies ==
    { [username |-> u, content |-> None] : u \in Users \cup {"", None} }

\* `not body.get(k)`: the field is absent or the empty string
Falsy(v) == v \in {None, ""}

VARIABLES
    db,        \* the committed database: [posts, comments, likes]
    wdb,       \* the working copy of the connection holding the write lock
    lock,      \* {r} when the connection of request r holds the write lock
    req,       \* the request in each slot: handler, position, arguments, locals
    clock,     \* the value now_iso returns
    issuedPosts,     \* how many post ids uuid4 has handed out
    issuedComments,  \* how many comment ids uuid4 has handed out
    db0,             \* history: the database the run started from
    deletedPosts,    \* history: ids of the posts a delete_post has committed
    formerComments,  \* history: <<postId, commentId>> removed by a delete_post
    racedLikes       \* history: <<postId, username>> of two like_post that both
                     \* passed the existence check before either inserted

vars == << db, wdb, lock, req, clock, issuedPosts, issuedComments,
           db0, deletedPosts, formerComments, racedLikes >>

hist == << db0, deletedPosts, formerComments, racedLikes >>

\* ----------------------------------------------------------------- storage
EmptyDb == [posts |-> << >>, comments |-> << >>, likes |-> {}]

\* SELECT * FROM posts WHERE id = ? ; fetchone
SelectPost(d, id) == IF id \in DOMAIN d.posts THEN d.posts[id] ELSE None

\* SELECT * FROM comments WHERE id = ? AND postId = ? ; fetchone
SelectComment(d, cid, pid) ==
    IF cid \in DOMAIN d.comments /\ d.comments[cid].postId = pid
    THEN d.comments[cid] ELSE None

\* SELECT * FROM comments WHERE postId = ? ; fetchall
SelectCommentsOf(d, pid) ==
    { d.comments[c] : c \in { x \in DOMAIN d.comments : d.comments[x].postId = pid } }

\* SELECT * FROM posts ; fetchall
SelectAllPosts(d) == { d.posts[p] : p \in DOMAIN d.posts }

\* SELECT * FROM likes WHERE postId = ? AND username = ? ; fetchone
SelectLike(d, pid, u) == IF <<pid, u>> \in d.likes THEN <<pid, u>> ELSE None

Without(f, S) == [x \in (DOMAIN f) \ S |-> f[x]]
With(f, k, v) == [x \in (DOMAIN f) \cup {k} |-> IF x = k THEN v ELSE f[x]]

\* INSERT INTO posts (...) VALUES (...)
InsertPost(d, row) == [d EXCEPT !.posts = With(@, row.id, row)]

\* faulty variant: the row is replaced, which resets its counters
UpdatePostRow_replace(d, id, u, c, now) ==
    IF id \in DOMAIN d.posts
    THEN [d EXCEPT !.posts[id].username = u, !.posts[id].content = c,
                   !.posts[id].updatedAt = now,
                   !.posts[id].likes = 0, !.posts[id].comments = 0]
    ELSE d

\* UPDATE posts SET username = ?, content = ?, updatedAt = ? WHERE id = ?
UpdatePostRow(d, id, u, c, now) ==
    IF id \in DOMAIN d.posts
    THEN [d EXCEPT !.posts[id].username = u, !.posts[id].content = c,
                   !.posts[id].updatedAt = now]
    ELSE d

\* DELETE FROM posts WHERE id = ?
DeletePostRow(d, id) == [d EXCEPT !.posts = Without(@, {id})]

\* faulty variant: the cascade forgets the comments
DeleteCommentsOf_none(d, pid) == d

\* DELETE FROM comments WHERE postId = ?
DeleteCommentsOf(d, pid) ==
    [d EXCEPT !.comments = Without(@, { c \in DOMAIN @ : @[c].postId = pid })]

\* faulty variant: the DELETE without its WHERE clause
DeleteLikesOf_all(d, pid) == [d EXCEPT !.likes = {}]

\* DELETE FROM likes WHERE postId = ?
DeleteLikesOf(d, pid) == [d EXCEPT !.likes = { e \in @ : e[1] # pid }]

\* INSERT INTO comments (...) VALUES (...)
InsertComment(d, row) == [d EXCEPT !.comments = With(@, row.id, row)]

\* faulty variant: the counter is not bumped
IncComments_forgotten(d, pid) == d

\* UPDATE posts SET comments = comments + 1 WHERE id = ?
IncComments(d, pid) ==
    IF pid \in DOMAIN d.posts
    THEN [d EXCEPT !.posts[pid].comments = @ + 1] ELSE d

\* UPDATE posts SET comments = comments - 1 WHERE id = ? AND comments > 0
DecComments(d, pid) ==
    IF pid \in DOMAIN d.posts /\ d.posts[pid].comments > 0
    THEN [d EXCEPT !.posts[pid].comments = @ - 1] ELSE d

\* UPDATE comments SET username = ?, content = ?, updatedAt = ?
\*   WHERE id = ? AND postId = ?
UpdateCommentRow(d, cid, pid, u, c, now) ==
    IF cid \in DOMAIN d.comments /\ d.comments[cid].postId = pid
    THEN [d EXCEPT !.comments[cid].username = u, !.comments[cid].content = c,
                   !.comments[cid].updatedAt = now]
    ELSE d

\* DELETE FROM comments WHERE id = ? AND postId = ?
DeleteCommentRow(d, cid, pid) ==
    [d EXCEPT !.comments =
        Without(@, { c \in DOMAIN @ : c = cid /\ @[c].postId = pid })]

\* the likes table's PRIMARY KEY (postId, username): does the INSERT conflict?
LikeConflict(d, pid, u) == <<pid, u>> \in d.likes

\* INSERT INTO likes (postId, username) VALUES (?, ?)
InsertLike(d, pid, u) == [d EXCEPT !.likes = @ \cup {<<pid, u>>}]

\* UPDATE posts SET likes = likes + 1 WHERE id = ?
IncLikes(d, pid) ==
    IF pid \in DOMAIN d.posts
    THEN [d EXCEPT !.posts[pid].likes = @ + 1] ELSE d

\* faulty variant: the counter is not brought down
DecLikes_forgotten(d, pid) == d

\* faulty variant: the decrement without its likes > 0 condition
DecLikes_unguarded(d, pid) ==
    IF pid \in DOMAIN d.posts
    THEN [d EXCEPT !.posts[pid].likes = @ - 1] ELSE d

\* UPDATE posts SET likes = likes - 1 WHERE id = ? AND likes > 0
DecLikes(d, pid) ==
    IF pid \in DOMAIN d.posts /\ d.posts[pid].likes > 0
    THEN [d EXCEPT !.posts[pid].likes = @ - 1] ELSE d

\* DELETE FROM likes WHERE postId = ? AND username = ?
DeleteLike(d, pid, u) == [d EXCEPT !.likes = @ \ {<<pid, u>>}]

\* ------------------------------------------------------------ transactions
\* A data-changing statement of request r: sqlite3 opens the transaction
\* before the connection's first such statement, and the statement takes the
\* write lock, waiting while another connection holds it.  newdb is the
\* working copy after the statement.
Execute(r, newdb) ==
    /\ lock \subseteq {r}
    /\ lock' = {r}
    /\ wdb' = newdb
    /\ db' = db

\* await db.commit(): the working copy becomes the committed database
Commit(r) ==
    /\ lock = {r}
    /\ db' = wdb
    /\ wdb' = wdb
    /\ lock' = NoLock

\* the connection closes with its transaction open: rollback
Rollback(r) ==
    /\ lock = {r}
    /\ wdb' = db
    /\ db' = db
    /\ lock' = NoLock

NoStorage == UNCHANGED << db, wdb, lock >>

PostExists(d, id) == id \in DOMAIN d.posts
\* faulty variant: the comment is looked up by its id alone
CommentExists_anywhere(d, cid, pid) == cid \in DOMAIN d.comments

CommentExists(d, cid, pid) ==
    cid \in DOMAIN d.comments /\ d.comments[cid].postId = pid

\* the working copy a statement of request r acts on
Working(r) == IF lock = {r} THEN wdb ELSE db

\* ---------------------------------------------------------------- requests
Idle ==
    [op |-> "idle", pc |-> "idle", postId |-> 0, commentId |-> 0, body |-> None,
     now |-> 0, local |-> None, status |-> 0, result |-> None]

IsIdle(r) == req[r].pc = "idle"
InFlight(r) == req[r].pc \notin {"idle", "done"}

\* request r arrives: requests are numbered in their order of arrival
Free(r) == IsIdle(r) /\ \A q \in Reqs : q < r => ~IsIdle(q)

Arrive(r, name, pid, cid, body, pc) ==
    [Idle EXCEPT !.op = name, !.pc = pc, !.postId = pid, !.commentId = cid,
                 !.body = body]

\* the handler returns or raises: the response of request r
Respond(rec, status, result) ==
    [rec EXCEPT !.pc = "done", !.status = status, !.result = result]

\* now_iso()
now_iso == clock

\* -------------------------------------------------------------------- Init
\* The database file outlives the process (init_db creates the tables only
\* if they do not exist), so a run starts from what earlier runs stored.
SeedPost(id, u, c, nl, nc) ==
    [id |-> id, username |-> u, content |-> c, createdAt |-> 0, updatedAt |-> 0,
     likes |-> nl, comments |-> nc]
SeedComment(id, pid, u, c) ==
    [id |-> id, postId |-> pid, username |-> u, content |-> c,
     createdAt |-> 0, updatedAt |-> 0]

\* one post liked by both users, with two comments
SeedOne ==
    [posts |-> (1 :> SeedPost(1, "a", "x", 2, 2)),
     comments |-> (1 :> SeedComment(1, 1, "a", "x") @@ 2 :> SeedComment(2, 1, "b", "y")),
     likes |-> {<<1, "a">>, <<1, "b">>}]

\* two posts, each with a like and a comment
SeedTwo ==
    [posts |-> (1 :> SeedPost(1, "a", "x", 1, 1) @@ 2 :> SeedPost(2, "b", "y", 1, 1)),
     comments |-> (1 :> SeedComment(1, 1, "a", "x") @@ 2 :> SeedComment(2, 2, "b", "y")),
     likes |-> {<<1, "a">>, <<2, "a">>}]

Seeds == {EmptyDb, SeedOne, SeedTwo}

Init ==
    /\ db \in Seeds
    /\ wdb = db
    /\ lock = NoLock
    /\ req = [r \in Reqs |-> Idle]
    /\ clock = 0
    /\ issuedPosts = Cardinality(DOMAIN db.posts)
    /\ issuedComments = Cardinality(DOMAIN db.comments)
    /\ db0 = db
    /\ deletedPosts = {}
    /\ formerComments = {}
    /\ racedLikes = {}


\* time passes
Tick ==
    /\ clock < MaxClock
    /\ clock' = clock + 1
    /\ UNCHANGED << db, wdb, lock, req, issuedPosts, issuedComments, hist >>

\* ------------------------------------------------------------------- POSTS
\* GET /posts
list_posts(r) ==
    /\ Free(r)
    /\ req' = [req EXCEPT ![r] =
                 Respond(Arrive(r, "list_posts", 0, 0, None, "done"),
                         HTTP_200, SelectAllPosts(db))]
    /\ NoStorage
    /\ UNCHANGED << clock, issuedPosts, issuedComments, hist >>

\* faulty variant: the id is the number of stored posts plus one
create_post_counted(r, body) ==
    /\ Free(r)
    /\ IF Falsy(body.username) \/ Falsy(body.content)
       THEN /\ req' = [req EXCEPT ![r] =
                         Respond(Arrive(r, "create_post", 0, 0, body, "done"),
                                 HTTP_400, None)]
            /\ UNCHANGED issuedPosts
       ELSE /\ issuedPosts < MaxPosts
            /\ issuedPosts' = issuedPosts + 1
            /\ LET id == Cardinality(DOMAIN db.posts) + 1 IN
               req' = [req EXCEPT ![r] =
                 [Arrive(r, "create_post", id, 0, body, "insert")
                    EXCEPT !.now = now_iso,
                           !.local = [id |-> id,
                                      username |-> body.username,
                                      content |-> body.content,
                                      createdAt |-> now_iso,
                                      updatedAt |-> now_iso,
                                      likes |-> 0,
                                      comments |-> 0]]]
    /\ NoStorage
    /\ UNCHANGED << clock, issuedComments, hist >>

\* POST /posts: validation, uuid4, now_iso, the post dict
create_post(r, body) ==
    /\ Free(r)
    /\ IF Falsy(body.username) \/ Falsy(body.content)
       THEN /\ req' = [req EXCEPT ![r] =
                         Respond(Arrive(r, "create_post", 0, 0, body, "done"),
                                 HTTP_400, None)]
            /\ UNCHANGED issuedPosts
       ELSE /\ issuedPosts < MaxPosts
            /\ issuedPosts' = issuedPosts + 1
            /\ req' = [req EXCEPT ![r] =
                 [Arrive(r, "create_post", issuedPosts + 1, 0, body, "insert")
                    EXCEPT !.now = now_iso,
                           !.local = [id |-> issuedPosts + 1,
                                      username |-> body.username,
                                      content |-> body.content,
                                      createdAt |-> now_iso,
                                      updatedAt |-> now_iso,
                                      likes |-> 0,
                                      comments |-> 0]]]
    /\ NoStorage
    /\ UNCHANGED << clock, issuedComments, hist >>

\* INSERT INTO posts
create_post_insert(r) ==
    /\ req[r].op = "create_post" /\ req[r].pc = "insert"
    /\ Execute(r, InsertPost(Working(r), req[r].local))
    /\ req' = [req EXCEPT ![r].pc = "commit"]
    /\ UNCHANGED << clock, issuedPosts, issuedComments, hist >>

\* commit; return post
create_post_commit(r) ==
    /\ req[r].op = "create_post" /\ req[r].pc = "commit"
    /\ Commit(r)
    /\ req' = [req EXCEPT ![r] = Respond(@, HTTP_201, req[r].local)]
    /\ UNCHANGED << clock, issuedPosts, issuedComments, hist >>

\* GET /posts/{postId}
get_post(r, postId) ==
    /\ Free(r)
    /\ req' = [req EXCEPT ![r] =
                 IF PostExists(db, postId)
                 THEN Respond(Arrive(r, "get_post", postId, 0, None, "done"),
                              HTTP_200, SelectPost(db, postId))
                 ELSE Respond(Arrive(r, "get_post", postId, 0, None, "done"),
                              HTTP_404, None)]
    /\ NoStorage
    /\ UNCHANGED << clock, issuedPosts, issuedComments, hist >>

\* faulty variant: the post is looked up before the body is validated
update_post_lookup_first(r, postId, body) ==
    /\ Free(r)
    /\ req' = [req EXCEPT ![r] =
                 IF ~PostExists(db, postId)
                 THEN Respond(Arrive(r, "update_post", postId, 0, body, "done"),
                              HTTP_404, None)
                 ELSE IF Falsy(body.username) \/ Falsy(body.content)
                 THEN Respond(Arrive(r, "update_post", postId, 0, body, "done"),
                              HTTP_400, None)
                 ELSE Arrive(r, "update_post", postId, 0, body, "select")]
    /\ NoStorage
    /\ UNCHANGED << clock, issuedPosts, issuedComments, hist >>

\* PATCH /posts/{postId}: validation
update_post(r, postId, body) ==
    /\ Free(r)
    /\ req' = [req EXCEPT ![r] =
                 IF Falsy(body.username) \/ Falsy(body.content)
                 THEN Respond(Arrive(r, "update_post", postId, 0, body, "done"),
                              HTTP_400, None)
                 ELSE Arrive(r, "update_post", postId, 0, body, "select")]
    /\ NoStorage
    /\ UNCHANGED << clock, issuedPosts, issuedComments, hist >>

\* SELECT the post; 404 if there is none; now = now_iso()
update_post_select(r) ==
    /\ req[r].op = "update_post" /\ req[r].pc = "select"
    /\ req' = [req EXCEPT ![r] =
                 IF PostExists(db, req[r].postId)
                 THEN [@ EXCEPT !.pc = "update", !.now = now_iso]
                 ELSE Respond(@, HTTP_404, None)]
    /\ NoStorage
    /\ UNCHANGED << clock, issuedPosts, issuedComments, hist >>

\* UPDATE posts SET username, content, updatedAt WHERE id
update_post_update(r) ==
    /\ req[r].op = "update_post" /\ req[r].pc = "update"
    /\ Execute(r, UpdatePostRow(Working(r), req[r].postId, req[r].body.username,
                                req[r].body.content, req[r].now))
    /\ req' = [req EXCEPT ![r].pc = "commit"]
    /\ UNCHANGED << clock, issuedPosts, issuedComments, hist >>

\* commit
update_post_commit(r) ==
    /\ req[r].op = "update_post" /\ req[r].pc = "commit"
    /\ Commit(r)
    /\ req' = [req EXCEPT ![r].pc = "reselect"]
    /\ UNCHANGED << clock, issuedPosts, issuedComments, hist >>

\* SELECT the post again; dict(zip(columns, row)) raises TypeError on None
update_post_reselect(r) ==
    /\ req[r].op = "update_post" /\ req[r].pc = "reselect"
    /\ req' = [req EXCEPT ![r] =
                 IF PostExists(db, req[r].postId)
                 THEN Respond(@, HTTP_200, SelectPost(db, req[r].postId))
                 ELSE Respond(@, HTTP_500, None)]
    /\ NoStorage
    /\ UNCHANGED << clock, issuedPosts, issuedComments, hist >>

\* DELETE /posts/{postId}: SELECT the post; 404 if there is none
delete_post(r, postId) ==
    /\ Free(r)
    /\ req' = [req EXCEPT ![r] =
                 IF PostExists(db, postId)
                 THEN Arrive(r, "delete_post", postId, 0, None, "delete_posts")
                 ELSE Respond(Arrive(r, "delete_post", postId, 0, None, "done"),
                              HTTP_404, None)]
    /\ NoStorage
    /\ UNCHANGED << clock, issuedPosts, issuedComments, hist >>

\* faulty variant: the connection runs in autocommit mode, the DELETE commits alone
delete_post_delete_posts_autocommit(r) ==
    /\ req[r].op = "delete_post" /\ req[r].pc = "delete_posts"
    /\ lock = NoLock
    /\ db' = DeletePostRow(db, req[r].postId)
    /\ wdb' = db'
    /\ lock' = NoLock
    /\ req' = [req EXCEPT ![r].pc = "delete_comments"]
    /\ UNCHANGED << clock, issuedPosts, issuedComments, hist >>

\* DELETE FROM posts WHERE id
delete_post_delete_posts(r) ==
    /\ req[r].op = "delete_post" /\ req[r].pc = "delete_posts"
    /\ Execute(r, DeletePostRow(Working(r), req[r].postId))
    /\ req' = [req EXCEPT ![r].pc = "delete_comments"]
    /\ UNCHANGED << clock, issuedPosts, issuedComments, hist >>

\* DELETE FROM comments WHERE postId
delete_post_delete_comments(r) ==
    /\ req[r].op = "delete_post" /\ req[r].pc = "delete_comments"
    /\ Execute(r, DeleteCommentsOf(Working(r), req[r].postId))
    /\ req' = [req EXCEPT ![r].pc = "delete_likes"]
    /\ UNCHANGED << clock, issuedPosts, issuedComments, hist >>

\* DELETE FROM likes WHERE postId
delete_post_delete_likes(r) ==
    /\ req[r].op = "delete_post" /\ req[r].pc = "delete_likes"
    /\ Execute(r, DeleteLikesOf(Working(r), req[r].postId))
    /\ req' = [req EXCEPT ![r].pc = "commit"]
    /\ UNCHANGED << clock, issuedPosts, issuedComments, hist >>

\* commit; 204.  The history records the post and the comments it took along.
delete_post_commit(r) ==
    /\ req[r].op = "delete_post" /\ req[r].pc = "commit"
    /\ Commit(r)
    /\ req' = [req EXCEPT ![r] = Respond(@, HTTP_204, None)]
    /\ deletedPosts' = deletedPosts \cup {req[r].postId}
    /\ formerComments' = formerComments \cup
         { <<req[r].postId, c>> : c \in (DOMAIN db.comments) \ (DOMAIN wdb.comments) }
    /\ UNCHANGED << clock, issuedPosts, issuedComments, db0, racedLikes >>

\* ---------------------------------------------------------------- COMMENTS
\* GET /posts/{postId}/comments: SELECT the post; 404 if there is none
list_comments(r, postId) ==
    /\ Free(r)
    /\ req' = [req EXCEPT ![r] =
                 IF PostExists(db, postId)
                 THEN Arrive(r, "list_comments", postId, 0, None, "select_comments")
                 ELSE Respond(Arrive(r, "list_comments", postId, 0, None, "done"),
                              HTTP_404, None)]
    /\ NoStorage
    /\ UNCHANGED << clock, issuedPosts, issuedComments, hist >>

\* SELECT * FROM comments WHERE postId
list_comments_select_comments(r) ==
    /\ req[r].op = "list_comments" /\ req[r].pc = "select_comments"
    /\ req' = [req EXCEPT ![r] =
                 Respond(@, HTTP_200, SelectCommentsOf(db, req[r].postId))]
    /\ NoStorage
    /\ UNCHANGED << clock, issuedPosts, issuedComments, hist >>

\* POST /posts/{postId}/comments: validation, uuid4, now_iso, the comment dict
create_comment(r, postId, body) ==
    /\ Free(r)
    /\ IF Falsy(body.username) \/ Falsy(body.content)
       THEN /\ req' = [req EXCEPT ![r] =
                         Respond(Arrive(r, "create_comment", postId, 0, body, "done"),
                                 HTTP_400, None)]
            /\ UNCHANGED issuedComments
       ELSE /\ issuedComments < MaxComments
            /\ issuedComments' = issuedComments + 1
            /\ req' = [req EXCEPT ![r] =
                 [Arrive(r, "create_comment", postId, issuedComments + 1, body, "select")
                    EXCEPT !.now = now_iso,
                           !.local = [id |-> issuedComments + 1,
                                      postId |-> postId,
                                      username |-> body.username,
                                      content |-> body.content,
                                      createdAt |-> now_iso,
                                      updatedAt |-> now_iso]]]
    /\ NoStorage
    /\ UNCHANGED << clock, issuedPosts, hist >>

\* faulty variant: the comment is stored before the post is looked up
create_comment_select_insert_first(r) ==
    /\ req[r].op = "create_comment" /\ req[r].pc = "select"
    /\ lock = NoLock
    /\ IF PostExists(db, req[r].postId)
       THEN /\ req' = [req EXCEPT ![r].pc = "insert"]
            /\ NoStorage
       ELSE /\ req' = [req EXCEPT ![r] = Respond(@, HTTP_404, None)]
            /\ db' = InsertComment(db, req[r].local)
            /\ wdb' = InsertComment(db, req[r].local)
            /\ lock' = lock
    /\ UNCHANGED << clock, issuedPosts, issuedComments, hist >>

\* faulty variant: the existence check of the post is left out
create_comment_select_unchecked(r) ==
    /\ req[r].op = "create_comment" /\ req[r].pc = "select"
    /\ req' = [req EXCEPT ![r].pc = "insert"]
    /\ NoStorage
    /\ UNCHANGED << clock, issuedPosts, issuedComments, hist >>

\* SELECT the post; 404 if there is none
create_comment_select(r) ==
    /\ req[r].op = "create_comment" /\ req[r].pc = "select"
    /\ req' = [req EXCEPT ![r] =
                 IF PostExists(db, req[r].postId)
                 THEN [@ EXCEPT !.pc = "insert"]
                 ELSE Respond(@, HTTP_404, None)]
    /\ NoStorage
    /\ UNCHANGED << clock, issuedPosts, issuedComments, hist >>

\* INSERT INTO comments
create_comment_insert(r) ==
    /\ req[r].op = "create_comment" /\ req[r].pc = "insert"
    /\ Execute(r, InsertComment(Working(r), req[r].local))
    /\ req' = [req EXCEPT ![r].pc = "update"]
    /\ UNCHANGED << clock, issuedPosts, issuedComments, hist >>

\* UPDATE posts SET comments = comments + 1
create_comment_update(r) ==
    /\ req[r].op = "create_comment" /\ req[r].pc = "update"
    /\ Execute(r, IncComments(Working(r), req[r].postId))
    /\ req' = [req EXCEPT ![r].pc = "commit"]
    /\ UNCHANGED << clock, issuedPosts, issuedComments, hist >>

\* commit; return comment
create_comment_commit(r) ==
    /\ req[r].op = "create_comment" /\ req[r].pc = "commit"
    /\ Commit(r)
    /\ req' = [req EXCEPT ![r] = Respond(@, HTTP_201, req[r].local)]
    /\ UNCHANGED << clock, issuedPosts, issuedComments, hist >>

\* GET /posts/{postId}/comments/{commentId}
get_comment(r, postId, commentId) ==
    /\ Free(r)
    /\ req' = [req EXCEPT ![r] =
                 IF CommentExists(db, commentId, postId)
                 THEN Respond(Arrive(r, "get_comment", postId, commentId, None, "done"),
                              HTTP_200, SelectComment(db, commentId, postId))
                 ELSE Respond(Arrive(r, "get_comment", postId, commentId, None, "done"),
                              HTTP_404, None)]
    /\ NoStorage
    /\ UNCHANGED << clock, issuedPosts, issuedComments, hist >>

\* PATCH /posts/{postId}/comments/{commentId}: validation
update_comment(r, postId, commentId, body) ==
    /\ Free(r)
    /\ req' = [req EXCEPT ![r] =
                 IF Falsy(body.username) \/ Falsy(body.content)
                 THEN Respond(Arrive(r, "update_comment", postId, commentId, body, "done"),
                              HTTP_400, None)
                 ELSE Arrive(r, "update_comment", postId, commentId, body, "select")]
    /\ NoStorage
    /\ UNCHANGED << clock, issuedPosts, issuedComments, hist >>

\* SELECT the comment; 404 if there is none; now = now_iso()
update_comment_select(r) ==
    /\ req[r].op = "update_comment" /\ req[r].pc = "select"
    /\ req' = [req EXCEPT ![r] =
                 IF CommentExists(db, req[r].commentId, req[r].postId)
                 THEN [@ EXCEPT !.pc = "update", !.now = now_iso]
                 ELSE Respond(@, HTTP_404, None)]
    /\ NoStorage
    /\ UNCHANGED << clock, issuedPosts, issuedComments, hist >>

\* UPDATE comments SET username, content, updatedAt WHERE id AND postId
update_comment_update(r) ==
    /\ req[r].op = "update_comment" /\ req[r].pc = "update"
    /\ Execute(r, UpdateCommentRow(Working(r), req[r].commentId, req[r].postId,
                                   req[r].body.username, req[r].body.content,
                                   req[r].now))
    /\ req' = [req EXCEPT ![r].pc = "commit"]
    /\ UNCHANGED << clock, issuedPosts, issuedComments, hist >>

\* commit
update_comment_commit(r) ==
    /\ req[r].op = "update_comment" /\ req[r].pc = "commit"
    /\ Commit(r)
    /\ req' = [req EXCEPT ![r].pc = "reselect"]
    /\ UNCHANGED << clock, issuedPosts, issuedComments, hist >>

\* SELECT the comment again; dict(zip(columns, row)) raises TypeError on None
update_comment_reselect(r) ==
    /\ req[r].op = "update_comment" /\ req[r].pc = "reselect"
    /\ req' = [req EXCEPT ![r] =
                 IF CommentExists(db, req[r].commentId, req[r].postId)
                 THEN Respond(@, HTTP_200,
                              SelectComment(db, req[r].commentId, req[r].postId))
                 ELSE Respond(@, HTTP_500, None)]
    /\ NoStorage
    /\ UNCHANGED << clock, issuedPosts, issuedComments, hist >>

\* DELETE /posts/{postId}/comments/{commentId}: SELECT the comment; 404 if none
delete_comment(r, postId, commentId) ==
    /\ Free(r)
    /\ req' = [req EXCEPT ![r] =
                 IF CommentExists(db, commentId, postId)
                 THEN Arrive(r, "delete_comment", postId, commentId, None, "delete")
                 ELSE Respond(Arrive(r, "delete_comment", postId, commentId, None, "done"),
                              HTTP_404, None)]
    /\ NoStorage
    /\ UNCHANGED << clock, issuedPosts, issuedComments, hist >>

\* DELETE FROM comments WHERE id AND postId
delete_comment_delete(r) ==
    /\ req[r].op = "delete_comment" /\ req[r].pc = "delete"
    /\ Execute(r, DeleteCommentRow(Working(r), req[r].commentId, req[r].postId))
    /\ req' = [req EXCEPT ![r].pc = "update"]
    /\ UNCHANGED << clock, issuedPosts, issuedComments, hist >>

\* UPDATE posts SET comments = comments - 1 WHERE id AND comments > 0
delete_comment_update(r) ==
    /\ req[r].op = "delete_comment" /\ req[r].pc = "update"
    /\ Execute(r, DecComments(Working(r), req[r].postId))
    /\ req' = [req EXCEPT ![r].pc = "commit"]
    /\ UNCHANGED << clock, issuedPosts, issuedComments, hist >>

\* commit; 204
delete_comment_commit(r) ==
    /\ req[r].op = "delete_comment" /\ req[r].pc = "commit"
    /\ Commit(r)
    /\ req' = [req EXCEPT ![r] = Respond(@, HTTP_204, None)]
    /\ UNCHANGED << clock, issuedPosts, issuedComments, hist >>

\* ------------------------------------------------------------------- LIKES
\* POST /posts/{postId}/likes: validation
like_post(r, postId, body) ==
    /\ Free(r)
    /\ req' = [req EXCEPT ![r] =
                 IF Falsy(body.username)
                 THEN Respond(Arrive(r, "like_post", postId, 0, body, "done"),
                              HTTP_400, None)
                 ELSE Arrive(r, "like_post", postId, 0, body, "select")]
    /\ NoStorage
    /\ UNCHANGED << clock, issuedPosts, issuedComments, hist >>

\* SELECT the post; 404 if there is none
like_post_select(r) ==
    /\ req[r].op = "like_post" /\ req[r].pc = "select"
    /\ req' = [req EXCEPT ![r] =
                 IF PostExists(db, req[r].postId)
                 THEN [@ EXCEPT !.pc = "insert"]
                 ELSE Respond(@, HTTP_404, None)]
    /\ NoStorage
    /\ racedLikes' =
         IF /\ PostExists(db, req[r].postId)
            /\ \E q \in Reqs \ {r} :
                  /\ req[q].op = "like_post" /\ req[q].pc = "insert"
                  /\ req[q].postId = req[r].postId /\ req[q].body = req[r].body
         THEN racedLikes \cup {<<req[r].postId, req[r].body.username>>}
         ELSE racedLikes
    /\ UNCHANGED << clock, issuedPosts, issuedComments, db0, deletedPosts,
                    formerComments >>

\* faulty variant: INSERT OR IGNORE, the UPDATE runs whether or not a row was inserted
like_post_insert_or_ignore(r) ==
    /\ req[r].op = "like_post" /\ req[r].pc = "insert"
    /\ Execute(r, InsertLike(Working(r), req[r].postId, req[r].body.username))
    /\ req' = [req EXCEPT ![r].pc = "update"]
    /\ UNCHANGED << clock, issuedPosts, issuedComments, hist >>

\* faulty variant: IntegrityError is not caught, the request fails
like_post_insert_raises(r) ==
    /\ req[r].op = "like_post" /\ req[r].pc = "insert"
    /\ lock \subseteq {r}
    /\ IF LikeConflict(Working(r), req[r].postId, req[r].body.username)
       THEN /\ NoStorage
            /\ req' = [req EXCEPT ![r] = Respond(@, HTTP_500, None)]
       ELSE /\ Execute(r, InsertLike(Working(r), req[r].postId, req[r].body.username))
            /\ req' = [req EXCEPT ![r].pc = "update"]
    /\ UNCHANGED << clock, issuedPosts, issuedComments, hist >>

\* INSERT INTO likes; on a duplicate key the statement raises IntegrityError,
\* which the handler swallows: the UPDATE and the commit are skipped and the
\* transaction stays open until the connection closes
like_post_insert(r) ==
    /\ req[r].op = "like_post" /\ req[r].pc = "insert"
    /\ IF LikeConflict(Working(r), req[r].postId, req[r].body.username)
       THEN /\ Execute(r, Working(r))
            /\ req' = [req EXCEPT ![r].pc = "close"]
       ELSE /\ Execute(r, InsertLike(Working(r), req[r].postId, req[r].body.username))
            /\ req' = [req EXCEPT ![r].pc = "update"]
    /\ UNCHANGED << clock, issuedPosts, issuedComments, hist >>

\* UPDATE posts SET likes = likes + 1
like_post_update(r) ==
    /\ req[r].op = "like_post" /\ req[r].pc = "update"
    /\ Execute(r, IncLikes(Working(r), req[r].postId))
    /\ req' = [req EXCEPT ![r].pc = "commit"]
    /\ UNCHANGED << clock, issuedPosts, issuedComments, hist >>

\* commit; 201
like_post_commit(r) ==
    /\ req[r].op = "like_post" /\ req[r].pc = "commit"
    /\ Commit(r)
    /\ req' = [req EXCEPT ![r] = Respond(@, HTTP_201, None)]
    /\ UNCHANGED << clock, issuedPosts, issuedComments, hist >>

\* after IntegrityError: the connection closes (rollback); 201
like_post_close(r) ==
    /\ req[r].op = "like_post" /\ req[r].pc = "close"
    /\ Rollback(r)
    /\ req' = [req EXCEPT ![r] = Respond(@, HTTP_201, None)]
    /\ UNCHANGED << clock, issuedPosts, issuedComments, hist >>

\* DELETE /posts/{postId}/likes: validation
unlike_post(r, postId, body) ==
    /\ Free(r)
    /\ req' = [req EXCEPT ![r] =
                 IF Falsy(body.username)
                 THEN Respond(Arrive(r, "unlike_post", postId, 0, body, "done"),
                              HTTP_400, None)
                 ELSE Arrive(r, "unlike_post", postId, 0, body, "select_post")]
    /\ NoStorage
    /\ UNCHANGED << clock, issuedPosts, issuedComments, hist >>

\* SELECT the post; 404 if there is none
unlike_post_select_post(r) ==
    /\ req[r].op = "unlike_post" /\ req[r].pc = "select_post"
    /\ req' = [req EXCEPT ![r] =
                 IF PostExists(db, req[r].postId)
                 THEN [@ EXCEPT !.pc = "select_like"]
                 ELSE Respond(@, HTTP_404, None)]
    /\ NoStorage
    /\ UNCHANGED << clock, issuedPosts, issuedComments, hist >>

\* faulty variant: the early return on a missing like is left out
unlike_post_select_like_always(r) ==
    /\ req[r].op = "unlike_post" /\ req[r].pc = "select_like"
    /\ req' = [req EXCEPT ![r].pc = "delete"]
    /\ NoStorage
    /\ UNCHANGED << clock, issuedPosts, issuedComments, hist >>

\* SELECT the like; 204 at once if there is none
unlike_post_select_like(r) ==
    /\ req[r].op = "unlike_post" /\ req[r].pc = "select_like"
    /\ req' = [req EXCEPT ![r] =
                 IF <<req[r].postId, req[r].body.username>> \in db.likes
                 THEN [@ EXCEPT !.pc = "delete"]
                 ELSE Respond(@, HTTP_204, None)]
    /\ NoStorage
    /\ UNCHANGED << clock, issuedPosts, issuedComments, hist >>

\* DELETE FROM likes WHERE postId AND username
unlike_post_delete(r) ==
    /\ req[r].op = "unlike_post" /\ req[r].pc = "delete"
    /\ Execute(r, DeleteLike(Working(r), req[r].postId, req[r].body.username))
    /\ req' = [req EXCEPT ![r].pc = "update"]
    /\ UNCHANGED << clock, issuedPosts, issuedComments, hist >>

\* UPDATE posts SET likes = likes - 1 WHERE id AND likes > 0
unlike_post_update(r) ==
    /\ req[r].op = "unlike_post" /\ req[r].pc = "update"
    /\ Execute(r, DecLikes(Working(r), req[r].postId))
    /\ req' = [req EXCEPT ![r].pc = "commit"]
    /\ UNCHANGED << clock, issuedPosts, issuedComments, hist >>

\* commit; 204
unlike_post_commit(r) ==
    /\ req[r].op = "unlike_post" /\ req[r].pc = "commit"
    /\ Commit(r)
    /\ req' = [req EXCEPT ![r] = Respond(@, HTTP_204, None)]
    /\ UNCHANGED << clock, issuedPosts, issuedComments, hist >>

Next ==
    \/ Tick
    \/ \E r \in Reqs : list_posts(r)
    \/ \E r \in Reqs, body \in Bodies : create_post(r, body)
    \/ \E r \in Reqs : create_post_insert(r)
    \/ \E r \in Reqs : create_post_commit(r)
    \/ \E r \in Reqs, p \in PostIds : get_post(r, p)
    \/ \E r \in Reqs, p \in PostIds, body \in Bodies : update_post(r, p, body)
    \/ \E r \in Reqs : update_post_select(r)
    \/ \E r \in Reqs : update_post_update(r)
    \/ \E r \in Reqs : update_post_commit(r)
    \/ \E r \in Reqs : update_post_reselect(r)
    \/ \E r \in Reqs, p \in PostIds : delete_post(r, p)
    \/ \E r \in Reqs : delete_post_delete_posts(r)
    \/ \E r \in Reqs : delete_post_delete_comments(r)
    \/ \E r \in Reqs : delete_post_delete_likes(r)
    \/ \E r \in Reqs : delete_post_commit(r)
    \/ \E r \in Reqs, p \in PostIds : list_comments(r, p)
    \/ \E r \in Reqs : list_comments_select_comments(r)
    \/ \E r \in Reqs, p \in PostIds, body \in Bodies : create_comment(r, p, body)
    \/ \E r \in Reqs : create_comment_select(r)
    \/ \E r \in Reqs : create_comment_insert(r)
    \/ \E r \in Reqs : create_comment_update(r)
    \/ \E r \in Reqs : create_comment_commit(r)
    \/ \E r \in Reqs, p \in PostIds, c \in CommentIds : get_comment(r, p, c)
    \/ \E r \in Reqs, p \in PostIds, c \in CommentIds, body \in Bodies :
          update_comment(r, p, c, body)
    \/ \E r \in Reqs : update_comment_select(r)
    \/ \E r \in Reqs : update_comment_update(r)
    \/ \E r \in Reqs : update_comment_commit(r)
    \/ \E r \in Reqs : update_comment_reselect(r)
    \/ \E r \in Reqs, p \in PostIds, c \in CommentIds : delete_comment(r, p, c)
    \/ \E r \in Reqs : delete_comment_delete(r)
    \/ \E r \in Reqs : delete_comment_update(r)
    \/ \E r \in Reqs : delete_comment_commit(r)
    \/ \E r \in Reqs, p \in PostIds, body \in LikeBodies : like_post(r, p, body)
    \/ \E r \in Reqs : like_post_select(r)
    \/ \E r \in Reqs : like_post_insert(r)
    \/ \E r \in Reqs : like_post_update(r)
    \/ \E r \in Reqs : like_post_commit(r)
    \/ \E r \in Reqs : like_post_close(r)
    \/ \E r \in Reqs, p \in PostIds, body \in LikeBodies : unlike_post(r, p, body)
    \/ \E r \in Reqs : unlike_post_select_post(r)
    \/ \E r \in Reqs : unlike_post_select_like(r)
    \/ \E r \in Reqs : unlike_post_delete(r)
    \/ \E r \in Reqs : unlike_post_update(r)
    \/ \E r \in Reqs : unlike_post_commit(r)

\* concurrent requests
Spec == Init /\ [][Next]_vars
\* each request runs to completion before the next starts
SeqNext ==
    /\ Next
    /\ \A r \in Reqs : IsIdle(r) /\ ~IsIdle(r)' => \A q \in Reqs : ~InFlight(q)
SeqSpec == Init /\ [][SeqNext]_vars
\* ------------------------------------------------------------------ claims
LikesOf(d, p) == { e \in d.likes : e[1] = p }
CommentsOf(d, p) == { c \in DOMAIN d.comments : d.comments[c].postId = p }

\* every post's counters equal the number of its like-edges and comments
CountersMatch(d) ==
    \A p \in DOMAIN d.posts :
        /\ d.posts[p].likes = Cardinality(LikesOf(d, p))
        /\ d.posts[p].comments = Cardinality(CommentsOf(d, p))

LikesMatch(d) ==
    \A p \in DOMAIN d.posts : d.posts[p].likes = Cardinality(LikesOf(d, p))

CommentsMatch(d) ==
    \A p \in DOMAIN d.posts : d.posts[p].comments = Cardinality(CommentsOf(d, p))

\* no request is in flight
Quiescent == \A r \in Reqs : ~InFlight(r)

Done(r, name, status) ==
    req[r].op = name /\ req[r].pc = "done" /\ req[r].status = status

\* C1: when every operation runs to completion before the next starts, after
\* any sequence of operations each stored post's likes equals the number of
\* its like-edges and its comments equals the number of its comment rows.
C1_CountersMatchSequential == Quiescent => CountersMatch(db)

\* a comment was created and then deleted, one request after the other
C1_Witness ==
    /\ Done(1, "create_comment", HTTP_201)
    /\ Done(2, "delete_comment", HTTP_204)
    /\ db.posts[req[1].postId].comments = db0.posts[req[1].postId].comments

\* C2: under concurrent requests, whenever no request is in flight each
\* post's likes counter equals the number of its like-edges (so two
\* concurrent unlike_post of one edge take exactly one off the counter).
C2_LikesMatchConcurrent == Quiescent => LikesMatch(db)

\* C3: under concurrent requests, whenever no request is in flight each
\* post's comments counter equals the number of its comment rows (so two
\* concurrent delete_comment of one comment take exactly one off the counter).
C3_CommentsMatchConcurrent == Quiescent => CommentsMatch(db)

\* C4: in every committed state every comment row and every like-edge
\* references a post that exists.
C4_NoOrphans ==
    /\ \A c \in DOMAIN db.comments : PostExists(db, db.comments[c].postId)
    /\ \A e \in db.likes : PostExists(db, e[1])

\* the committed database d without post p and all its comments and likes
Cascaded(d, p) == DeleteLikesOf(DeleteCommentsOf(DeletePostRow(d, p), p), p)

\* request r takes a step
Steps(r) == req'[r] # req[r]

\* C5: delete_post is all-or-nothing as seen by any other request: every
\* step of a delete_post of post P leaves the committed database, which is
\* what every other request reads, either untouched or without P, all its
\* comments and all its like-edges at once.
C5_DeletePostAllOrNothing ==
    [][\A r \in Reqs :
          req[r].op = "delete_post" /\ Steps(r) =>
              \/ db' = db
              \/ /\ db' # db
                 /\ db' = Cascaded(db, req[r].postId)]_vars

\* a delete_post has committed the removal of a post that had comments and likes
C5_Witness ==
    \E r \in Reqs :
        /\ Done(r, "delete_post", HTTP_204)
        /\ req[r].postId \in DOMAIN db0.posts
        /\ CommentsOf(db0, req[r].postId) # {}
        /\ LikesOf(db0, req[r].postId) # {}
        /\ ~PostExists(db, req[r].postId)

\* only the first n requests have arrived
OnlyFirst(n) == \A q \in Reqs : q > n => IsIdle(q)

\* request r asks to like post p as user u, with a non-empty username
IsLike(r, p, u) ==
    /\ req[r].op = "like_post"
    /\ req[r].postId = p
    /\ req[r].body.username = u

\* database d after a first like of post p by user u
Liked(d, p, u) == IncLikes(InsertLike(d, p, u), p)

\* the database after post p was liked by u, once or several times
AfterLike(d, p, u) == IF <<p, u>> \in d.likes THEN d ELSE Liked(d, p, u)

\* C6: one request after the other, like_post(P, u) on an existing post
\* answers 201 and, where the edge (P, u) exists already, changes nothing;
\* two successive like_post(P, u) with no edge before leave exactly one
\* edge (P, u) and raise P's likes by exactly 1.
C6_LikeTwiceCountsOnce ==
    \A p \in DOMAIN db0.posts, u \in Users :
        /\ IsLike(1, p, u) /\ req[1].pc = "done" /\ OnlyFirst(1) =>
              req[1].status = HTTP_201 /\ db = AfterLike(db0, p, u)
        /\ IsLike(1, p, u) /\ IsLike(2, p, u) /\ req[2].pc = "done" /\ OnlyFirst(2) =>
              /\ req[1].status = HTTP_201 /\ req[2].status = HTTP_201
              /\ db = AfterLike(db0, p, u)
              /\ Cardinality(LikesOf(db, p)) = Cardinality(LikesOf(db0, p) \cup {<<p, u>>})

\* a post was liked twice by a user who had not liked it: one edge, likes + 1
C6_Witness ==
    \E p \in DOMAIN db0.posts, u \in Users :
        /\ IsLike(1, p, u) /\ IsLike(2, p, u)
        /\ req[1].pc = "done" /\ req[2].pc = "done"
        /\ <<p, u>> \notin db0.likes
        /\ <<p, u>> \in db.likes
        /\ db.posts[p].likes = db0.posts[p].likes + 1

\* C7: two like_post requests for the same (post, user) that run
\* concurrently on an existing post commit exactly one like-edge and raise
\* likes by exactly 1, and both answer 201: the duplicate key of the loser
\* is never surfaced.
C7_ConcurrentLikesCountOnce ==
    \A p \in DOMAIN db0.posts, u \in Users :
        IsLike(1, p, u) /\ IsLike(2, p, u) /\ OnlyFirst(2) =>
            /\ \A r \in {1, 2} : req[r].pc = "done" => req[r].status = HTTP_201
            /\ db \in {db0, AfterLike(db0, p, u)}
            /\ (\E r \in {1, 2} : req[r].pc = "done") => db = AfterLike(db0, p, u)

\* both requests passed the existence check before either inserted, and both
\* have answered: one edge more than at the start, likes one higher
C7_Witness ==
    \E p \in DOMAIN db0.posts, u \in Users :
        /\ IsLike(1, p, u) /\ IsLike(2, p, u)
        /\ <<p, u>> \in racedLikes
        /\ <<p, u>> \notin db0.likes
        /\ req[1].pc = "done" /\ req[2].pc = "done"
        /\ db.likes = db0.likes \cup {<<p, u>>}
        /\ db.posts[p].likes = db0.posts[p].likes + 1

\* C8: whenever create_comment answers 201, its commit produces a committed
\* state in which the post exists, the new comment is stored and the post's
\* comments counter is one more than before the commit.
C8_CreateCommentAtomic ==
    [][\A r \in Reqs :
          req[r].op = "create_comment" /\ req[r].pc = "commit" /\ req'[r].pc = "done" =>
              /\ req'[r].status = HTTP_201
              /\ PostExists(db', req[r].postId)
              /\ CommentExists(db', req[r].commentId, req[r].postId)
              /\ PostExists(db, req[r].postId)
              /\ db'.posts[req[r].postId].comments =
                     db.posts[req[r].postId].comments + 1]_vars

\* C9: update_post is atomic with its lookup: the post its existence check
\* found is still there when its UPDATE runs, and every update_post with
\* non-empty fields ends either in NotFound with no change or in success
\* returning the stored post with the new username and content.
C9_UpdatePostAtomic ==
    [][\A r \in Reqs :
          req[r].op = "update_post" /\ Steps(r) =>
              /\ req[r].pc = "update" => PostExists(db, req[r].postId)
              /\ req'[r].pc = "done" =>
                    \/ req'[r].status = HTTP_404 /\ db' = db
                    \/ /\ req'[r].status = HTTP_200
                       /\ PostExists(db', req[r].postId)
                       /\ req'[r].result = db'.posts[req[r].postId]
                       /\ req'[r].result.username = req[r].body.username
                       /\ req'[r].result.content = req[r].body.content]_vars

\* request r arrives in this step
Arrives(r) == IsIdle(r) /\ ~IsIdle(r)'

\* C10: when delete_post(P) succeeds, its commit leaves no post row, no
\* comment row and no like-edge of P; from then on P never exists again,
\* none of its former comments is ever stored again, and every later
\* get_post(P), list_comments(P) and get_comment(P, c) for a former comment
\* c of P answers 404.
C10_DeletedPostStaysGone ==
    [][/\ \A r \in Reqs :
             req[r].op = "delete_post" /\ req[r].pc = "commit" /\ Steps(r) =>
                 /\ req'[r].status = HTTP_204
                 /\ req[r].postId \in deletedPosts'
                 /\ CommentsOf(db', req[r].postId) = {}
                 /\ LikesOf(db', req[r].postId) = {}
       /\ \A p \in deletedPosts' : ~PostExists(db', p)
       /\ \A fc \in formerComments' : fc[2] \notin DOMAIN db'.comments
       /\ \A r \in Reqs :
             /\ Arrives(r) /\ req'[r].op \in {"get_post", "list_comments"}
                   /\ req'[r].postId \in deletedPosts =>
                       req'[r].pc = "done" /\ req'[r].status = HTTP_404
             /\ Arrives(r) /\ req'[r].op = "get_comment"
                   /\ <<req'[r].postId, req'[r].commentId>> \in formerComments =>
                       req'[r].pc = "done" /\ req'[r].status = HTTP_404]_vars

\* a post with comments and likes was deleted, and a lookup of one of its
\* former comments then answered 404
C10_Witness ==
    \E r \in Reqs :
        /\ Done(r, "get_comment", HTTP_404)
        /\ <<req[r].postId, req[r].commentId>> \in formerComments
        /\ req[r].postId \in deletedPosts
        /\ LikesOf(db0, req[r].postId) # {}

\* request r asks to unlike post p as user u, with a non-empty username
IsUnlike(r, p, u) ==
    /\ req[r].op = "unlike_post"
    /\ req[r].postId = p
    /\ req[r].body.username = u

\* C11: unlike_post(P, u) on an existing post with no like-edge (P, u)
\* answers 204 and never writes: the committed database and the working
\* copy stay what they were, P.likes included, which is not negative.
C11_UnlikeAbsentEdgeNoOp ==
    \A p \in DOMAIN db0.posts, u \in Users :
        IsUnlike(1, p, u) /\ <<p, u>> \notin db0.likes /\ OnlyFirst(1) =>
            /\ db = db0 /\ wdb = db0 /\ lock = NoLock
            /\ db.posts[p].likes = db0.posts[p].likes
            /\ db.posts[p].likes >= 0
            /\ req[1].pc = "done" => req[1].status = HTTP_204

\* a user who had not liked a post with likes has unliked it: 204
C11_Witness ==
    \E p \in DOMAIN db0.posts, u \in Users :
        /\ IsUnlike(1, p, u) /\ req[1].pc = "done" /\ req[1].status = HTTP_204
        /\ <<p, u>> \notin db0.likes
        /\ db0.posts[p].likes > 0
        /\ OnlyFirst(1)

\* C12: create_comment with non-empty fields on a post id that does not
\* exist answers 404 and never writes: the comments and every post counter
\* are what they were before the call.
C12_CreateCommentNoPost ==
    \A p \in PostIds :
        ( /\ req[1].op = "create_comment" /\ req[1].postId = p
          /\ ~Falsy(req[1].body.username) /\ ~Falsy(req[1].body.content)
          /\ p \notin DOMAIN db0.posts /\ OnlyFirst(1) ) =>
            /\ db = db0 /\ wdb = db0 /\ lock = NoLock
            /\ req[1].pc = "done" => req[1].status = HTTP_404

\* a comment for a missing post was refused while other posts have comments
C12_Witness ==
    /\ Done(1, "create_comment", HTTP_404)
    /\ req[1].postId \notin DOMAIN db0.posts
    /\ DOMAIN db0.comments # {}
    /\ db.comments = db0.comments
    /\ OnlyFirst(1)

\* the body of request r fails the validation of its handler
Invalid(rec) ==
    \/ /\ rec.op \in {"create_post", "update_post",
                      "create_comment", "update_comment"}
       /\ Falsy(rec.body.username) \/ Falsy(rec.body.content)
    \/ /\ rec.op \in {"like_post", "unlike_post"}
       /\ Falsy(rec.body.username)

\* C13: validation comes before every storage access: a request whose
\* username (or, for posts and comments, content) is empty or absent is
\* answered 400 in its first step, without a write or a lock, whether or
\* not the post or comment it names exists.
C13_ValidationFirst ==
    [][\A r \in Reqs :
         Arrives(r) /\ Invalid(req'[r]) =>
             /\ req'[r].pc = "done" /\ req'[r].status = HTTP_400
             /\ db' = db /\ wdb' = wdb /\ lock' = lock]_vars

\* an invalid unlike of an existing post and an invalid update of a
\* comment that does not exist were both refused with 400
C13_Witness ==
    /\ Done(1, "unlike_post", HTTP_400) /\ PostExists(db, req[1].postId)
    /\ Done(2, "update_comment", HTTP_400)
    /\ ~CommentExists(db, req[2].commentId, req[2].postId)
    /\ db = db0 /\ db0 # EmptyDb

\* d2 is d1 but for username, content and updatedAt of post p
OnlyPostFields(d1, d2, p) ==
    /\ p \in DOMAIN d1.posts /\ p \in DOMAIN d2.posts
    /\ d2 = [d1 EXCEPT !.posts[p].username = d2.posts[p].username,
                       !.posts[p].content = d2.posts[p].content,
                       !.posts[p].updatedAt = d2.posts[p].updatedAt]

\* d2 is d1 but for username, content and updatedAt of comment c
OnlyCommentFields(d1, d2, c) ==
    /\ c \in DOMAIN d1.comments /\ c \in DOMAIN d2.comments
    /\ d2 = [d1 EXCEPT !.comments[c].username = d2.comments[c].username,
                       !.comments[c].content = d2.comments[c].content,
                       !.comments[c].updatedAt = d2.comments[c].updatedAt]

\* C14: an update_post changes only username, content and updatedAt of the
\* post it names, to the values of the request; an update_comment changes
\* only those three fields of the comment it names, under its post.  Ids,
\* createdAt, postId, both counters, all other rows and the likes stay.
C14_UpdateTouchesThreeFields ==
    [][\A r \in Reqs : Steps(r) =>
         /\ req'[r].op = "update_post" =>
               \/ db' = db
               \/ /\ OnlyPostFields(db, db', req[r].postId)
                  /\ db'.posts[req[r].postId].username = req[r].body.username
                  /\ db'.posts[req[r].postId].content = req[r].body.content
                  /\ db'.posts[req[r].postId].updatedAt = req[r].now
         /\ req'[r].op = "update_comment" =>
               \/ db' = db
               \/ /\ OnlyCommentFields(db, db', req[r].commentId)
                  /\ db.comments[req[r].commentId].postId = req[r].postId
                  /\ db'.comments[req[r].commentId].username
                        = req[r].body.username
                  /\ db'.comments[req[r].commentId].content
                        = req[r].body.content
                  /\ db'.comments[req[r].commentId].updatedAt = req[r].now]_vars

\* a post with likes and comments and one of its comments were both
\* rewritten, and both updates answered 200
C14_Witness ==
    /\ Done(1, "update_post", HTTP_200) /\ Done(2, "update_comment", HTTP_200)
    /\ db.posts[req[1].postId].content # db0.posts[req[1].postId].content
    /\ db.comments[req[2].commentId].content
         # db0.comments[req[2].commentId].content
    /\ db0.posts[req[1].postId].likes > 0
    /\ db0.posts[req[1].postId].comments > 0

\* C15: in every reachable state, of concurrent runs too, the likes and
\* comments counters of every post are at least 0, in the committed
\* database and in the working copy of an open transaction; a decrement
\* that finds the counter at 0 changes nothing.
C15_CountersNeverNegative ==
    \A d \in {db, wdb} : \A p \in DOMAIN d.posts :
        d.posts[p].likes >= 0 /\ d.posts[p].comments >= 0

\* two requests unliked the same edge at once: the first brought the
\* counter to 0 and committed, the second has run its decrement at 0
C15_Witness ==
    \E p \in DOMAIN db.posts, u \in Users :
        /\ IsUnlike(1, p, u) /\ req[1].pc = "done"
        /\ req[1].status = HTTP_204
        /\ IsUnlike(2, p, u) /\ req[2].pc = "commit" /\ lock = {2}
        /\ <<p, u>> \in db0.likes
        /\ db.posts[p].likes = 0 /\ wdb.posts[p].likes = 0

\* C16: a create_post with non-empty fields adds exactly one post and
\* returns it with 201: its id is the id of no post that exists or ever
\* existed, its likes and comments are 0, its createdAt equals its
\* updatedAt, its username and content are the request's; no other post, no
\* comment and no like changes, and no other step of the request writes.
C16_CreatePostAddsOneFreshPost ==
    [][\A r \in Reqs : Steps(r) /\ req'[r].op = "create_post" =>
         LET row == req'[r].local IN
         IF req'[r].pc = "done" /\ req'[r].status = HTTP_201
         THEN /\ db' = InsertPost(db, row)
              /\ req'[r].result = row
              /\ row.id \notin DOMAIN db.posts \cup DOMAIN db0.posts
                                \cup deletedPosts
              /\ row.likes = 0 /\ row.comments = 0
              /\ row.createdAt = row.updatedAt
              /\ row.username = req'[r].body.username
              /\ row.content = req'[r].body.content
         ELSE db' = db]_vars

\* a post was created after another had been deleted, next to a post that
\* is still there
C16_Witness ==
    /\ Done(2, "create_post", HTTP_201)
    /\ deletedPosts # {}
    /\ req[2].result.id \in DOMAIN db.posts
    /\ Cardinality(DOMAIN db.posts) = 2

\* comment c is stored, but under another post than p
Elsewhere(d, c, p) == c \in DOMAIN d.comments /\ d.comments[c].postId # p

\* C17: a comment is addressable only under the post that owns it:
\* get_comment, update_comment and delete_comment of a stored comment
\* under another post id answer 404 at their lookup and write nothing,
\* so the comment's row and both posts' counters are what they were.
C17_CommentOnlyUnderItsPost ==
    [][\A r \in Reqs :
         ( \/ /\ Arrives(r)
              /\ req'[r].op \in {"get_comment", "delete_comment"}
              /\ Elsewhere(db, req'[r].commentId, req'[r].postId)
           \/ /\ Steps(r)
              /\ req[r].op = "update_comment" /\ req[r].pc = "select"
              /\ Elsewhere(db, req[r].commentId, req[r].postId) ) =>
             /\ req'[r].pc = "done" /\ req'[r].status = HTTP_404
             /\ db' = db /\ wdb' = wdb /\ lock' = lock]_vars

\* a comment of one post was asked to be deleted and to be updated under
\* another post that exists: both refused, the database as it was
C17_Witness ==
    /\ Done(1, "delete_comment", HTTP_404)
    /\ Done(2, "update_comment", HTTP_404)
    /\ \A r \in Reqs : /\ Elsewhere(db, req[r].commentId, req[r].postId)
                       /\ PostExists(db, req[r].postId)
    /\ db = db0

\* what database d holds outside post p: the other posts' rows, and the
\* comments and likes of other posts
Outside(d, p) ==
    [posts    |-> Without(d.posts, {p}),
     comments |-> Without(d.comments,
                          { c \in DOMAIN d.comments : d.comments[c].postId = p }),
     likes    |-> { e \in d.likes : e[1] # p }]

\* C18: a request addressed to post P changes nothing outside P: in each
\* of its steps the row and counters of every other post, and every
\* comment and like of another post, stay as they were.
C18_OtherPostsUntouched ==
    [][\A r \in Reqs : Steps(r) =>
         Outside(db', req'[r].postId) = Outside(db, req'[r].postId)]_vars

\* a post with a comment and a like was deleted; the other post, its
\* comment and its like are as they were
C18_Witness ==
    /\ Done(1, "delete_post", HTTP_204)
    /\ Outside(db0, req[1].postId) # Outside(EmptyDb, req[1].postId)
    /\ Outside(db0, req[1].postId).comments # << >>
    /\ Outside(db0, req[1].postId).likes # {}
    /\ db = Outside(db0, req[1].postId)

\* C19: like_post(P, u) with no edge (P, u) before it, then
\* unlike_post(P, u), restores the like-edges and P.likes, and with them
\* the whole database; an unlike_post(P, u) right after an
\* unlike_post(P, u) is a no-op that answers 204: all through it the
\* database is what the first one left.
C19_LikeUnlikeRoundTrip ==
    \A p \in DOMAIN db0.posts, u \in Users :
        /\ ( /\ IsLike(1, p, u) /\ <<p, u>> \notin db0.likes
             /\ IsUnlike(2, p, u) /\ req[2].pc = "done" ) =>
               /\ req[1].status = HTTP_201 /\ req[2].status = HTTP_204
               /\ db.likes = db0.likes
               /\ db.posts[p].likes = db0.posts[p].likes
               /\ db = db0
        /\ ( IsUnlike(1, p, u) /\ IsUnlike(2, p, u) ) =>
               /\ db.likes = db0.likes \ {<<p, u>>}
               /\ db.posts[p].likes =
                     IF <<p, u>> \in db0.likes /\ db0.posts[p].likes > 0
                     THEN db0.posts[p].likes - 1
                     ELSE db0.posts[p].likes
               /\ wdb = db /\ lock = NoLock
               /\ req[2].pc = "done" => req[2].status = HTTP_204

\* a user liked a post that others like and then took the like back
C19_Witness ==
    \E p \in DOMAIN db0.posts, u \in Users :
        /\ IsLike(1, p, u) /\ req[1].status = HTTP_201
        /\ <<p, u>> \notin db0.likes
        /\ db0.posts[p].likes > 0
        /\ IsUnlike(2, p, u) /\ req[2].pc = "done"
        /\ req[2].status = HTTP_204

\* the positions of a request that has not passed its lookups yet
Lookup == {"idle", "select", "select_post"}

\* C20: a request answered 404 has left posts, comments and likes as they
\* were: the answer comes from a lookup position, without a write, a
\* commit or a lock, and a request reaches a lookup position only from
\* lookup positions, by steps that do not write either.
C20_NotFoundWritesNothing ==
    [][\A r \in Reqs : Steps(r) =>
         /\ req'[r].pc \in Lookup =>
               /\ req[r].pc \in Lookup
               /\ db' = db /\ wdb' = wdb /\ lock' = lock
         /\ req'[r].pc = "done" /\ req'[r].status = HTTP_404 =>
               /\ req[r].pc \in Lookup
               /\ db' = db /\ wdb' = wdb /\ lock' = lock
               /\ lock # {r}]_vars

\* a post was deleted and an unlike of it then answered 404, while the
\* other post, its comment and its like are still there
C20_Witness ==
    /\ Done(1, "delete_post", HTTP_204)
    /\ Done(2, "unlike_post", HTTP_404)
    /\ req[2].postId = req[1].postId
    /\ db.posts # << >> /\ db.comments # << >> /\ db.likes # {}

====
